---- MODULE Spec2Model ----
(***************************************************************************)
(* Model of the real-time layer of the dashboard:                          *)
(*   - useWebSocket      (src/dashboard/lib/api.ts, lines 168-270)         *)
(*   - useRealTimeData   (src/dashboard/hooks/use-real-time-data.ts)       *)
(*   - RealTimeStatus    (components/layout/real-time-status.tsx)          *)
(*   - RealTimeAlerts    (components/dashboard/real-time-alerts.tsx)       *)
(* One mounted instance of useRealTimeData is modelled together with the   *)
(* browser objects it creates: WebSocket objects and setTimeout timers.    *)
(* Every socket handler and timer callback is a closure over the values of *)
(* the render in which connect() was created; the model keeps that         *)
(* captured environment (env) with each socket and timer.                  *)
(***************************************************************************)
EXTENDS Integers, Sequences, FiniteSets, TLC

(* ---------------------------- bounds ----------------------------------- *)
\* number of clicks on the pause/resume button in one run
MaxToggles == 3
\* value up to which the reconnectAttempts counter is followed; it lies
\* beyond maxReconnectAttempts
AttemptsCap == 6
\* number of inbound frames delivered in one run
MaxFrames == 2
\* bounds of SpecApi, the runs with direct calls of the returned functions:
\* number of clicks on the pause/resume button plus direct calls of the
\* returned connect(),
ApiOps == 2
\* value up to which the reconnectAttempts counter is followed,
ApiAttemptsCap == 1
\* number of messages transmitted by sendMessage()
MaxSends == 1
\* bounds of SpecAlerts, the runs of RealTimeAlerts on top of its hook:
\* number of clicks, value up to which reconnectAttempts is followed, number
\* of inbound frames,
AlertToggles == 2
AlertAttemptsCap == 1
MaxAlertFrames == 2
\* and of SpecAlerts and SpecAlertList: the largest value Date.now() takes
\* (alerts created in the same millisecond share an id),
MaxAlertClock == 2

(* ------------------------ program constants ---------------------------- *)
\* api.ts:169  maxReconnectAttempts = 5
maxReconnectAttempts == 5

\* ws.current === null (api.ts:178) and reconnectTimeoutRef.current === null (api.ts:179)
NoSocket == 0
NoTimer == 0
\* the JavaScript value null: the initial lastMessage and JSON.parse("null")
JSNull == [kind |-> "null"]
\* use-real-time-data.ts:19
DefaultWsUrl == "ws://localhost:8000/ws"
\* a NEXT_PUBLIC_WS_URL for which `new WebSocket(url)` throws a SyntaxError
BadWsUrl == "localhost:8000/ws"

\* every enabling click and every direct connect() starts one chain
\* socket -> timer -> socket -> ...; the pools hold one socket and one timer
\* per chain
MaxChains ==
  IF ApiOps > (MaxToggles + 1) \div 2 THEN ApiOps ELSE (MaxToggles + 1) \div 2
SocketIds == 1..MaxChains
TimerIds == 1..MaxChains

(* ------------------------- inbound frames ------------------------------ *)
\* raw text frames (event.data) the transport may deliver
F_bad == "not json"
F_num == "42"
F_null == "null"
F_noType == "{\"data\":{}}"
F_noData == "{\"type\":\"dashboard_metrics\"}"
F_dm == "{\"type\":\"dashboard_metrics\",\"data\":{},\"timestamp\":\"t\"}"
F_fa == "{\"type\":\"funnel_analysis\",\"data\":{},\"timestamp\":\"t\"}"
F_sa == "{\"type\":\"sentiment_analysis\",\"data\":{},\"timestamp\":\"t\"}"
F_ub == "{\"type\":\"user_behavior\",\"data\":{},\"timestamp\":\"t\"}"
F_other == "{\"type\":\"cohort_analysis\",\"data\":{},\"timestamp\":\"t\"}"

\* frames whose data trips the alert thresholds of RealTimeAlerts
F_faLow == "{\"type\":\"funnel_analysis\",\"data\":{\"conversion_rate\":3},\"timestamp\":\"t\"}"
F_saNeg == "{\"type\":\"sentiment_analysis\",\"data\":{\"sentiment\":-0.8},\"timestamp\":\"t\"}"

RawFrames == {F_bad, F_num, F_null, F_noType, F_noData, F_dm, F_fa, F_sa, F_ub, F_other}

Obj(t, d) == [kind |-> "object", type |-> t, hasData |-> d]

\* JSON.parse(event.data): the parsed value, or "throw" for a SyntaxError
JSONparse(f) ==
  CASE f = F_bad    -> [kind |-> "throw"]
    [] f = F_num    -> [kind |-> "number"]
    [] f = F_null   -> JSNull
    [] f = F_noType -> Obj("undefined", TRUE)
    [] f = F_noData -> Obj("dashboard_metrics", FALSE)
    [] f = F_dm     -> Obj("dashboard_metrics", TRUE)
    [] f = F_fa     -> Obj("funnel_analysis", TRUE)
    [] f = F_sa     -> Obj("sentiment_analysis", TRUE)
    [] f = F_ub     -> Obj("user_behavior", TRUE)
    [] f = F_faLow  -> [kind |-> "object", type |-> "funnel_analysis", hasData |-> TRUE,
                        conversion_rate |-> 3]
    [] f = F_saNeg  -> [kind |-> "object", type |-> "sentiment_analysis", hasData |-> TRUE,
                        sentiment10 |-> -8]
    [] OTHER        -> Obj("cohort_analysis", TRUE)

\* message.type as JavaScript evaluates it: a TypeError on null, undefined on
\* a number or on an object without the property
TypeOf(m) ==
  CASE m.kind = "null"   -> "TypeError"
    [] m.kind = "object" -> m.type
    [] OTHER             -> "undefined"

KnownTypes == {"dashboard_metrics", "funnel_analysis", "sentiment_analysis", "user_behavior"}

(* ------------------------ outbound messages ---------------------------- *)
\* values a consumer may pass to sendMessage(message: any)
M_ping == [kind |-> "object", type |-> "ping"]
M_text == [kind |-> "string", value |-> "hello"]
Messages == {M_ping, M_text}

\* JSON.stringify(message): the text put on the wire
JSONstringify(m) ==
  IF m.kind = "string"
  THEN "\"" \o m.value \o "\""
  ELSE "{\"type\":\"" \o m.type \o "\"}"

(* ------------------------------ state ---------------------------------- *)
VARIABLES
  wsUrl,                \* use-real-time-data.ts:19  the configured endpoint
  isRealTimeEnabled,    \* use-real-time-data.ts:14
  lastUpdate,           \* use-real-time-data.ts:15  0 is null, else a clock value
  updateCount,          \* use-real-time-data.ts:16
  isConnected,          \* api.ts:171
  connectionStatus,     \* api.ts:172
  lastMessage,          \* api.ts:175
  reconnectAttempts,    \* api.ts:176
  ws,                   \* api.ts:178  ws.current: a socket id or NoSocket
  reconnectTimeoutRef,  \* api.ts:179  a timer handle or NoTimer
  sockets,              \* the WebSocket objects created by connect()
  timers,               \* the timers created by setTimeout in onclose
  now,                  \* the clock read by new Date(); it ticks once per frame
  lastFrame,            \* the raw frame most recently handed to an onmessage handler
  invalidated,          \* queryClient.invalidateQueries calls made for that frame
  uncaught,             \* an exception escaped the most recently run handler
  sent,                 \* the texts handed to WebSocket.send(), in order
  sendResult,           \* the value returned by the latest sendMessage() call
  connectCalls,         \* number of direct calls of the returned connect() so far
  toggles,              \* number of clicks on the pause/resume button so far
  alerts,               \* real-time-alerts.tsx:21  newest first
  alertClock,           \* the value of Date.now() when the latest alert was made
  alertsCrashed         \* the alerts effect threw: React has unmounted the tree

vars == <<wsUrl, isRealTimeEnabled, lastUpdate, updateCount, isConnected,
          connectionStatus, lastMessage, reconnectAttempts, ws,
          reconnectTimeoutRef, sockets, timers, now, lastFrame, invalidated,
          uncaught, sent, sendResult, connectCalls, toggles, alerts,
          alertClock, alertsCrashed>>

\* the state of RealTimeAlerts
alertVars == <<alerts, alertClock, alertsCrashed>>

\* the values a render's closures capture: connect, the socket handlers and
\* the timer callback created in one render all read these, never later ones
NoEnv == [url |-> "", reconnectAttempts |-> 0, isRealTimeEnabled |-> FALSE]
FreeSocket == [readyState |-> "FREE", opened |-> FALSE, env |-> NoEnv]
FreeTimer == [pending |-> FALSE, env |-> NoEnv]

\* the program state as one value, so that handlers compose as functions
Cur ==
  [wsUrl |-> wsUrl, isRealTimeEnabled |-> isRealTimeEnabled,
   lastUpdate |-> lastUpdate, updateCount |-> updateCount,
   isConnected |-> isConnected, connectionStatus |-> connectionStatus,
   lastMessage |-> lastMessage, reconnectAttempts |-> reconnectAttempts,
   ws |-> ws, reconnectTimeoutRef |-> reconnectTimeoutRef,
   sockets |-> sockets, timers |-> timers, now |-> now,
   lastFrame |-> lastFrame, invalidated |-> invalidated, exc |-> FALSE,
   sent |-> sent, sendResult |-> sendResult, connectCalls |-> connectCalls]

Commit(st) ==
  /\ wsUrl' = st.wsUrl
  /\ isRealTimeEnabled' = st.isRealTimeEnabled
  /\ lastUpdate' = st.lastUpdate
  /\ updateCount' = st.updateCount
  /\ isConnected' = st.isConnected
  /\ connectionStatus' = st.connectionStatus
  /\ lastMessage' = st.lastMessage
  /\ reconnectAttempts' = st.reconnectAttempts
  /\ ws' = st.ws
  /\ reconnectTimeoutRef' = st.reconnectTimeoutRef
  /\ sockets' = st.sockets
  /\ timers' = st.timers
  /\ now' = st.now
  /\ lastFrame' = st.lastFrame
  /\ invalidated' = st.invalidated
  /\ uncaught' = st.exc
  /\ sent' = st.sent
  /\ sendResult' = st.sendResult
  /\ connectCalls' = st.connectCalls

Init ==
  /\ wsUrl \in {DefaultWsUrl, BadWsUrl}
  /\ isRealTimeEnabled = FALSE
  /\ lastUpdate = 0
  /\ updateCount = 0
  /\ isConnected = FALSE
  /\ connectionStatus = "disconnected"
  /\ lastMessage = JSNull
  /\ reconnectAttempts = 0
  /\ ws = NoSocket
  /\ reconnectTimeoutRef = NoTimer
  /\ sockets = [i \in SocketIds |-> FreeSocket]
  /\ timers = [t \in TimerIds |-> FreeTimer]
  /\ now = 0
  /\ lastFrame = "none"
  /\ invalidated = <<>>
  /\ uncaught = FALSE
  /\ sent = <<>>
  /\ sendResult = "none"
  /\ connectCalls = 0
  /\ toggles = 0
  /\ alerts = <<>>
  /\ alertClock = 0
  /\ alertsCrashed = FALSE

(* ------------------------ useRealTimeData ------------------------------ *)
\* the url argument of useWebSocket: isRealTimeEnabled ? wsUrl : ""
UrlOf(st) == IF st.isRealTimeEnabled THEN st.wsUrl ELSE ""

\* the closure environment of the current render
Render(st) ==
  [url |-> UrlOf(st), reconnectAttempts |-> st.reconnectAttempts,
   isRealTimeEnabled |-> st.isRealTimeEnabled]

\* the switch with the break after the funnel_analysis case left out
InvalidateFor_fallthrough(t) ==
  CASE t = "dashboard_metrics"  -> <<"dashboard-metrics">>
    [] t = "funnel_analysis"    -> <<"funnel-analysis", "dropoff-analysis", "sentiment-analysis">>
    [] t = "sentiment_analysis" -> <<"sentiment-analysis">>
    [] t = "user_behavior"      -> <<"user-behavior", "user-journey-patterns", "similar-users">>
    [] OTHER                    -> <<>>

\* the switch on update.type: the query keys invalidated, in call order
InvalidateFor(t) ==
  CASE t = "dashboard_metrics"  -> <<"dashboard-metrics">>
    [] t = "funnel_analysis"    -> <<"funnel-analysis", "dropoff-analysis">>
    [] t = "sentiment_analysis" -> <<"sentiment-analysis">>
    [] t = "user_behavior"      -> <<"user-behavior", "user-journey-patterns", "similar-users">>
    [] OTHER                    -> <<>>

\* onMessage returning early for a message whose type is not a known one
onMessage_knownOnly(st, env, m) ==
  IF ~env.isRealTimeEnabled \/ TypeOf(m) \notin KnownTypes THEN st
  ELSE [st EXCEPT !.lastUpdate = st.now, !.updateCount = @ + 1,
                  !.invalidated = @ \o InvalidateFor(TypeOf(m))]

\* onMessage without setLastUpdate(new Date())
onMessage_countOnly(st, env, m) ==
  IF ~env.isRealTimeEnabled THEN st
  ELSE LET s1 == [st EXCEPT !.updateCount = @ + 1]
       IN IF TypeOf(m) = "TypeError"
          THEN [s1 EXCEPT !.exc = TRUE]
          ELSE [s1 EXCEPT !.invalidated = @ \o InvalidateFor(TypeOf(m))]

\* the onMessage option passed to useWebSocket, as created in a render with env
onMessage(st, env, m) ==
  IF ~env.isRealTimeEnabled THEN st
  ELSE LET s1 == [st EXCEPT !.lastUpdate = st.now, !.updateCount = @ + 1]
       IN IF TypeOf(m) = "TypeError"
          THEN [s1 EXCEPT !.exc = TRUE]
          ELSE [s1 EXCEPT !.invalidated = @ \o InvalidateFor(TypeOf(m))]

(* --------------------------- useWebSocket ------------------------------ *)
\* new WebSocket(url) throws a SyntaxError for a url that is not ws: or wss:
UrlThrows(url) == url = BadWsUrl

\* a closed socket that ws.current no longer refers to is garbage
Release(st) ==
  IF st.ws # NoSocket /\ st.sockets[st.ws].readyState = "CLOSED"
  THEN [st EXCEPT !.sockets[st.ws] = FreeSocket, !.ws = NoSocket]
  ELSE st

FreeSocketIds(st) == {i \in SocketIds : Release(st).sockets[i].readyState = "FREE"}
FreeTimerIds(st) == {t \in TimerIds : ~st.timers[t].pending}
Lowest(S) == CHOOSE x \in S : \A y \in S : x <= y

\* ws.current = new WebSocket(url) with the four handlers of this render
NewWebSocket(st, env) ==
  LET r == Release(st)
      id == Lowest(FreeSocketIds(st))
  IN [r EXCEPT !.sockets[id] = [readyState |-> "CONNECTING", opened |-> FALSE, env |-> env],
               !.ws = id]

\* connect without the test of an empty url: new WebSocket("") throws
connect_noUrlTest(st, env) ==
  LET s1 == [st EXCEPT !.connectionStatus = "connecting"]
  IN IF env.url = "" \/ UrlThrows(env.url)
     THEN [s1 EXCEPT !.connectionStatus = "error"]
     ELSE NewWebSocket(s1, env)

connect(st, env) ==
  IF env.url = ""
  THEN [st EXCEPT !.connectionStatus = "disconnected", !.isConnected = FALSE]
  ELSE LET s1 == [st EXCEPT !.connectionStatus = "connecting"]
       IN IF UrlThrows(env.url)
          THEN [s1 EXCEPT !.connectionStatus = "error"]
          ELSE NewWebSocket(s1, env)

onopen(st, env) ==
  [st EXCEPT !.isConnected = TRUE, !.connectionStatus = "connected",
             !.reconnectAttempts = 0]

\* onmessage with the onMessage call placed after the try/catch
onmessage_callbackOutsideTry(st, env, f) ==
  LET m == JSONparse(f)
  IN IF m.kind = "throw"
     THEN st
     ELSE onMessage([st EXCEPT !.lastMessage = m], env, m)

\* onmessage without its try/catch
onmessage_noCatch(st, env, f) ==
  LET m == JSONparse(f)
  IN IF m.kind = "throw"
     THEN [st EXCEPT !.exc = TRUE]
     ELSE onMessage([st EXCEPT !.lastMessage = m], env, m)

\* the socket's message handler: try { parse; setLastMessage; onMessage } catch
onmessage(st, env, f) ==
  LET m == JSONparse(f)
      body == IF m.kind = "throw"
              THEN [st EXCEPT !.exc = TRUE]
              ELSE onMessage([st EXCEPT !.lastMessage = m], env, m)
  IN [body EXCEPT !.exc = FALSE]

\* reconnectTimeoutRef.current = setTimeout(() => {...}, reconnectInterval)
setTimeout(st, env) ==
  LET t == Lowest(FreeTimerIds(st))
  IN [st EXCEPT !.timers[t] = [pending |-> TRUE, env |-> env],
                !.reconnectTimeoutRef = t]

onclose(st, env) ==
  LET s1 == [st EXCEPT !.isConnected = FALSE, !.connectionStatus = "disconnected"]
  IN IF env.reconnectAttempts < maxReconnectAttempts
     THEN setTimeout(s1, env)
     ELSE s1

onerror(st, env) == [st EXCEPT !.connectionStatus = "error"]

\* the callback given to setTimeout in onclose
timerCallback(st, env) ==
  connect([st EXCEPT !.reconnectAttempts = @ + 1], env)

clearTimeout(st, t) == [st EXCEPT !.timers[t] = FreeTimer]

\* WebSocket.close(): a no-op on a socket that is closing or closed
close(st, id) ==
  IF st.sockets[id].readyState \in {"CONNECTING", "OPEN"}
  THEN [st EXCEPT !.sockets[id].readyState = "CLOSING"]
  ELSE st

\* disconnect that also clears the attempt counter
disconnect_resetsAttempts(st) ==
  LET s1 == IF st.reconnectTimeoutRef # NoTimer
            THEN clearTimeout(st, st.reconnectTimeoutRef)
            ELSE st
      s2 == IF s1.ws # NoSocket THEN close(s1, s1.ws) ELSE s1
  IN [s2 EXCEPT !.reconnectAttempts = 0]

disconnect(st) ==
  LET s1 == IF st.reconnectTimeoutRef # NoTimer
            THEN clearTimeout(st, st.reconnectTimeoutRef)
            ELSE st
  IN IF s1.ws # NoSocket THEN close(s1, s1.ws) ELSE s1

\* sendMessage without the readyState test
sendMessage_noCheck(st, message) ==
  IF st.ws # NoSocket
  THEN [st EXCEPT !.sent = Append(@, JSONstringify(message)), !.sendResult = "true"]
  ELSE [st EXCEPT !.sendResult = "false"]

sendMessage(st, message) ==
  IF st.ws # NoSocket /\ st.sockets[st.ws].readyState = "OPEN"
  THEN [st EXCEPT !.sent = Append(@, JSONstringify(message)), !.sendResult = "true"]
  ELSE [st EXCEPT !.sendResult = "false"]

\* an effect that also starts the update statistics afresh
useEffect_resetsCount(st) ==
  LET s1 == disconnect([st EXCEPT !.updateCount = 0, !.lastUpdate = 0])
  IN IF UrlOf(s1) # ""
     THEN connect(s1, Render(s1))
     ELSE [s1 EXCEPT !.connectionStatus = "disconnected", !.isConnected = FALSE]

\* the effect on [url]: the cleanup of the previous run, then the body with
\* the closures of the render that changed url
useEffect(st) ==
  LET s1 == disconnect(st)
  IN IF UrlOf(s1) # ""
     THEN connect(s1, Render(s1))
     ELSE [s1 EXCEPT !.connectionStatus = "disconnected", !.isConnected = FALSE]

(* --------------------------- RealTimeStatus ---------------------------- *)
\* a status text that ignores the pause
getStatusText_noPause(enabled, status) ==
  CASE status = "connected"  -> "Live"
    [] status = "connecting" -> "Connecting"
    [] status = "error"      -> "Error"
    [] OTHER                 -> "Disconnected"

\* real-time-status.tsx:28-40  the text of the status badge
getStatusText(enabled, status) ==
  IF ~enabled THEN "Paused"
  ELSE CASE status = "connected"  -> "Live"
         [] status = "connecting" -> "Connecting"
         [] status = "error"      -> "Error"
         [] OTHER                 -> "Disconnected"

(* --------------------------- RealTimeAlerts ---------------------------- *)
\* the test `lastMessage && ...`: null is falsy, a number or an object is not
Truthy(m) == m.kind # "null"

\* type.replace("_", " "): the first underscore becomes a space
ReplaceUnderscore(t) ==
  CASE t = "dashboard_metrics"  -> "dashboard metrics"
    [] t = "funnel_analysis"    -> "funnel analysis"
    [] t = "sentiment_analysis" -> "sentiment analysis"
    [] t = "user_behavior"      -> "user behavior"
    [] t = "cohort_analysis"    -> "cohort analysis"
    [] OTHER                    -> t

\* lastMessage.data?.conversion_rate < 5 and lastMessage.data?.sentiment < -0.5
\* (the sentiment is kept in tenths); undefined compares false
LowConversion(m) == "conversion_rate" \in DOMAIN m /\ m.conversion_rate < 5
NegativeSentiment(m) == "sentiment10" \in DOMAIN m /\ m.sentiment10 < -5

\* the alert built for lastMessage at time t; `dismissed` is absent, read as false
newAlert(m, t) ==
  LET info == [id |-> t, type |-> "info", title |-> "Data Updated",
               message |-> ReplaceUnderscore(m.type) \o " data has been updated",
               dismissed |-> FALSE]
  IN IF m.type = "funnel_analysis" /\ LowConversion(m)
     THEN [info EXCEPT !.type = "critical", !.title = "Low Conversion Rate Alert",
                       !.message = "Conversion rate has dropped below 5%. Immediate attention required."]
     ELSE IF m.type = "sentiment_analysis" /\ NegativeSentiment(m)
     THEN [info EXCEPT !.type = "warning", !.title = "Negative Sentiment Detected",
                       !.message = "User sentiment has become significantly negative on one or more pages."]
     ELSE info

\* prev.slice(0, 9)
Slice9(prev) == SubSeq(prev, 1, IF Len(prev) < 9 THEN Len(prev) ELSE 9)

\* an updater that appends the new alert after the kept ones
addAlert_atEnd(prev, a) == Slice9(prev) \o <<a>>

\* the updater (prev) => [newAlert, ...prev.slice(0, 9)]
addAlert(prev, a) == <<a>> \o Slice9(prev)

\* the updater of dismissAlert(alertId)
dismissAlert(prev, alertId) ==
  [i \in DOMAIN prev |->
     IF prev[i].id = alertId THEN [prev[i] EXCEPT !.dismissed = TRUE] ELSE prev[i]]

\* alerts.filter((alert) => !alert.dismissed)
activeAlerts(list) == SelectSeq(list, LAMBDA a : ~a.dismissed)

\* the dependency [lastMessage, isConnected] changed in this step: isConnected
\* by value, lastMessage by identity (every parsed object is a new one)
AlertDepsChanged ==
  \/ isConnected' # isConnected
  \/ lastMessage' # lastMessage
  \/ now' # now /\ JSONparse(lastFrame').kind = "object"

\* the effect of RealTimeAlerts, run after the render this step causes
AlertsEffect ==
  IF ~AlertDepsChanged \/ ~Truthy(lastMessage') \/ ~isConnected'
  THEN UNCHANGED alertVars
  ELSE IF lastMessage'.kind # "object" \/ lastMessage'.type = "undefined"
  THEN \* lastMessage.type.replace throws a TypeError
       /\ alertsCrashed' = TRUE
       /\ UNCHANGED <<alerts, alertClock>>
  ELSE /\ \E t \in {alertClock, alertClock + 1} :
            /\ t <= MaxAlertClock
            /\ alertClock' = t
            /\ alerts' = addAlert(alerts, newAlert(lastMessage', t))
       /\ UNCHANGED alertsCrashed

(* ----------------------------- actions --------------------------------- *)
\* a button handler that enables instead of negating: setIsRealTimeEnabled(true)
toggleRealTime_enableOnly ==
  LET s1 == [Cur EXCEPT !.isRealTimeEnabled = TRUE]
  IN /\ toggles < MaxToggles
     /\ toggles' = toggles + 1
     /\ Commit(IF isRealTimeEnabled THEN s1 ELSE useEffect(s1))

\* the user clicks the pause/resume button
toggleRealTime ==
  LET s1 == [Cur EXCEPT !.isRealTimeEnabled = ~isRealTimeEnabled]
  IN /\ toggles < MaxToggles
     /\ toggles' = toggles + 1
     /\ Commit(useEffect(s1))

\* the transport establishes the connection of socket id
SocketOpen(id) ==
  /\ sockets[id].readyState = "CONNECTING"
  /\ UNCHANGED toggles
  /\ Commit(onopen([Cur EXCEPT !.sockets[id].readyState = "OPEN",
                               !.sockets[id].opened = TRUE],
                   sockets[id].env))

\* the transport delivers frame f on socket id
SocketMessage(id, f) ==
  /\ sockets[id].readyState = "OPEN"
  /\ now < MaxFrames
  /\ UNCHANGED toggles
  /\ Commit(onmessage([Cur EXCEPT !.now = @ + 1, !.lastFrame = f, !.invalidated = <<>>],
                      sockets[id].env, f))

\* the connection of socket id ends: an error event first when the connection
\* failed, then the close event, both in the same task
SocketClose(id, failed) ==
  LET env == sockets[id].env
      gone == IF ws = id
              THEN [Cur EXCEPT !.sockets[id] = [FreeSocket EXCEPT !.readyState = "CLOSED"]]
              ELSE [Cur EXCEPT !.sockets[id] = FreeSocket]
      s1 == IF failed THEN onerror(gone, env) ELSE gone
  IN /\ sockets[id].readyState \in {"CONNECTING", "OPEN", "CLOSING"}
     /\ ~sockets[id].opened => failed
     /\ UNCHANGED toggles
     /\ Commit(onclose(s1, env))

\* the reconnect timer t fires
TimerFire(t) ==
  LET env == timers[t].env
  IN /\ timers[t].pending
     /\ reconnectAttempts < AttemptsCap
     /\ UNCHANGED toggles
     /\ Commit(timerCallback([Cur EXCEPT !.timers[t] = FreeTimer], env))

\* a consumer of useWebSocket calls the returned sendMessage(m)
CallSendMessage(m) ==
  /\ Len(sent) < MaxSends
  /\ UNCHANGED toggles
  /\ Commit(sendMessage(Cur, m))

\* a consumer of useWebSocket calls the returned disconnect()
CallDisconnect ==
  /\ UNCHANGED toggles
  /\ Commit(disconnect(Cur))

\* a consumer of useWebSocket calls the returned connect(), the one of the
\* latest render
CallConnect ==
  /\ toggles + connectCalls < ApiOps
  /\ UNCHANGED toggles
  /\ Commit(connect([Cur EXCEPT !.connectCalls = @ + 1], Render(Cur)))

\* the hook as RealTimeStatus mounts it; RealTimeAlerts is left aside
Next ==
  \/ toggleRealTime /\ UNCHANGED alertVars
  \/ \E id \in SocketIds : SocketOpen(id) /\ UNCHANGED alertVars
  \/ \E id \in SocketIds, f \in RawFrames : SocketMessage(id, f) /\ UNCHANGED alertVars
  \/ \E id \in SocketIds, failed \in BOOLEAN : SocketClose(id, failed) /\ UNCHANGED alertVars
  \/ \E t \in TimerIds : TimerFire(t) /\ UNCHANGED alertVars

Spec == Init /\ [][Next]_vars

\* useWebSocket with a consumer that also uses the functions it returns; no
\* frames are delivered
NextApi ==
  \/ toggles + connectCalls < ApiOps /\ toggleRealTime /\ UNCHANGED alertVars
  \/ \E id \in SocketIds : SocketOpen(id) /\ UNCHANGED alertVars
  \/ \E id \in SocketIds, failed \in BOOLEAN : SocketClose(id, failed) /\ UNCHANGED alertVars
  \/ \E t \in TimerIds : reconnectAttempts < ApiAttemptsCap /\ TimerFire(t) /\ UNCHANGED alertVars
  \/ \E m \in Messages : CallSendMessage(m) /\ UNCHANGED alertVars
  \/ CallDisconnect /\ UNCHANGED alertVars
  \/ CallConnect /\ UNCHANGED alertVars

SpecApi == Init /\ [][NextApi]_vars

\* frames delivered in SpecAlerts
AlertFrames == {F_bad, F_num, F_dm, F_faLow, F_saNeg}

\* RealTimeAlerts on top of a useRealTimeData instance: every step of the
\* hook is followed by the render and the effect of the component
NextAlerts ==
  \/ ~alertsCrashed /\ toggles < AlertToggles /\ toggleRealTime /\ AlertsEffect
  \/ \E id \in SocketIds : ~alertsCrashed /\ SocketOpen(id) /\ AlertsEffect
  \/ \E id \in SocketIds, f \in AlertFrames :
       ~alertsCrashed /\ now < MaxAlertFrames /\ SocketMessage(id, f) /\ AlertsEffect
  \/ \E id \in SocketIds, failed \in BOOLEAN :
       ~alertsCrashed /\ SocketClose(id, failed) /\ AlertsEffect
  \/ \E t \in TimerIds :
       ~alertsCrashed /\ reconnectAttempts < AlertAttemptsCap /\ TimerFire(t) /\ AlertsEffect

SpecAlerts == Init /\ [][NextAlerts]_vars

\* the variables of the hook
hookVars ==
  <<wsUrl, isRealTimeEnabled, lastUpdate, updateCount, isConnected,
    connectionStatus, lastMessage, reconnectAttempts, ws, reconnectTimeoutRef,
    sockets, timers, now, lastFrame, invalidated, uncaught, sent, sendResult,
    connectCalls, toggles>>

\* messages for which the effect builds an alert
AlertMessages == {JSONparse(F_dm)}

\* the effect adds the alert for message m
AddAlert(m) ==
  /\ \E t \in {alertClock, alertClock + 1} :
       /\ t <= MaxAlertClock
       /\ alertClock' = t
       /\ alerts' = addAlert(alerts, newAlert(m, t))
  /\ UNCHANGED alertsCrashed
  /\ UNCHANGED hookVars

\* the user clicks the X of an alert that is shown
DismissAlert(alertId) ==
  /\ \E i \in DOMAIN alerts : alerts[i].id = alertId /\ ~alerts[i].dismissed
  /\ alerts' = dismissAlert(alerts, alertId)
  /\ UNCHANGED <<alertClock, alertsCrashed>>
  /\ UNCHANGED hookVars

\* the user clicks "Clear All", shown while an alert is active
ClearAllAlerts ==
  /\ activeAlerts(alerts) # <<>>
  /\ alerts' = <<>>
  /\ UNCHANGED <<alertClock, alertsCrashed>>
  /\ UNCHANGED hookVars

\* the three updaters of the alert list, applied to the lists they produce
NextAlertList ==
  \/ \E m \in AlertMessages : AddAlert(m)
  \/ \E alertId \in 0..MaxAlertClock : DismissAlert(alertId)
  \/ ClearAllAlerts

SpecAlertList == Init /\ [][NextAlertList]_vars

TypeOK ==
  /\ connectionStatus \in {"connecting", "connected", "disconnected", "error"}
  /\ isConnected \in BOOLEAN
  /\ ws \in SocketIds \cup {NoSocket}
  /\ updateCount \in 0..MaxFrames

(* ------------------------ derived observations ------------------------- *)
\* sockets whose connection exists or is being established
OpenOrOpening == {i \in SocketIds : sockets[i].readyState \in {"CONNECTING", "OPEN"}}
\* sockets on which close() was called and whose close event is still due
Closing == {i \in SocketIds : sockets[i].readyState = "CLOSING"}
PendingTimers == {t \in TimerIds : timers[t].pending}
\* the step is the handling of one inbound frame
FrameStep == now' = now + 1
\* the step is the firing of a reconnect timer
TimerStep == \E t \in TimerIds : TimerFire(t)
\* the sequence q names every member of S exactly once
ExactlyOnce(q, S) ==
  /\ Len(q) = Cardinality(S)
  /\ {q[i] : i \in DOMAIN q} = S

(* ------------------------------ claims --------------------------------- *)
\* C1: the number of automatic reconnect attempts made since the last
\* successful open never exceeds maxAttempts, and once the budget is used up
\* no reconnect timer is pending.
C1_ReconnectBudget ==
  /\ reconnectAttempts <= maxReconnectAttempts
  /\ reconnectAttempts >= maxReconnectAttempts => PendingTimers = {}

\* C2: while disabled, once the close event of every socket closed by the
\* disable has been processed, no reconnect timer is pending and no socket
\* is open or opening.
C2_DisableLeavesNothing ==
  (~isRealTimeEnabled /\ Closing = {}) => (PendingTimers = {} /\ OpenOrOpening = {})

\* C3: at most one socket is open or opening at any instant.
C3_AtMostOneSocket == Cardinality(OpenOrOpening) <= 1

\* C4: a reconnect timer that fires while the feature is disabled is a no-op:
\* no socket is created, the connection state and attemptsUsed are unchanged.
C4_TimerAfterDisableIsNoOp ==
  [][(TimerStep /\ ~isRealTimeEnabled)
       => UNCHANGED <<sockets, ws, connectionStatus, isConnected, reconnectAttempts>>]_vars

\* C5: at most one reconnect timer is pending in every reachable state.
C5_AtMostOneTimer == Cardinality(PendingTimers) <= 1

\* C6: connect() never leaves behind an open or opening socket: whenever
\* ws.current stops referring to a socket, that socket is neither open nor
\* opening afterwards (connect is a no-op on it or has closed it first).
C6_ConnectClosesHeldSocket ==
  [][\A i \in SocketIds :
       (ws = i /\ ws' # i) => sockets'[i].readyState \notin {"CONNECTING", "OPEN"}]_vars

\* C7: updateCount grows by exactly one for a frame that parses as an object
\* with type and data and is handled while enabled, and by zero for every
\* other frame and for every step that is not the handling of a frame.
C7_CountsOnlyValidEvents ==
  [][updateCount' =
       IF FrameStep /\ isRealTimeEnabled /\ lastFrame' \in {F_dm, F_fa, F_sa, F_ub, F_other}
       THEN updateCount + 1
       ELSE updateCount]_vars

\* C8: a frame that fails JSON parsing raises nothing past the frame handler
\* and changes neither the connection manager's state nor lastMessage,
\* lastUpdate or updateCount, and issues no invalidation.
C8_MalformedFrameIsInert ==
  [][(FrameStep /\ lastFrame' = F_bad)
       => /\ UNCHANGED <<connectionStatus, isConnected, reconnectAttempts, ws,
                         sockets, timers, reconnectTimeoutRef>>
          /\ UNCHANGED <<lastMessage, lastUpdate, updateCount>>
          /\ invalidated' = <<>>
          /\ uncaught' = FALSE]_vars

C8_Witness == lastFrame = F_bad /\ now = 1 /\ isConnected

\* C9: an event of a known type handled while enabled invalidates exactly the
\* key groups of its routing table entry, each once, and no other group.
C9_RoutingTable ==
  [][(FrameStep /\ isRealTimeEnabled)
       => /\ lastFrame' = F_dm => ExactlyOnce(invalidated', {"dashboard-metrics"})
          /\ lastFrame' = F_fa => ExactlyOnce(invalidated', {"funnel-analysis", "dropoff-analysis"})
          /\ lastFrame' = F_sa => ExactlyOnce(invalidated', {"sentiment-analysis"})
          /\ lastFrame' = F_ub => ExactlyOnce(invalidated',
                                    {"user-behavior", "user-journey-patterns", "similar-users"})]_vars

C9_Witness ==
  /\ isRealTimeEnabled
  /\ lastFrame = F_ub
  /\ Len(invalidated) = 3
  /\ updateCount = 2

\* C10: a well-formed frame of an unknown type is delivered, becomes
\* lastMessage, is counted in updateCount, leaves the connection as it is and
\* invalidates no key group.
C10_UnknownTypeAccepted ==
  [][(FrameStep /\ lastFrame' = F_other)
       => /\ lastMessage' = [kind |-> "object", type |-> "cohort_analysis", hasData |-> TRUE]
          /\ updateCount' = updateCount + 1
          /\ lastUpdate' = now'
          /\ invalidated' = <<>>
          /\ UNCHANGED <<sockets, ws, connectionStatus, isConnected>>]_vars

C10_Witness ==
  /\ lastFrame = F_other
  /\ lastMessage = [kind |-> "object", type |-> "cohort_analysis", hasData |-> TRUE]
  /\ updateCount = 1
  /\ isConnected

\* the socket ws.current refers to is open
HeldOpen == ws # NoSocket /\ sockets[ws].readyState = "OPEN"
\* the step is a call of sendMessage()
SendStep == \E m \in Messages : CallSendMessage(m)
\* everything but the wire and the value returned by sendMessage()
stateButSend ==
  <<wsUrl, isRealTimeEnabled, lastUpdate, updateCount, isConnected,
    connectionStatus, lastMessage, reconnectAttempts, ws, reconnectTimeoutRef,
    sockets, timers, now, lastFrame, invalidated, uncaught, connectCalls, toggles>>

\* C11: sendMessage transmits the message and returns true only when the held
\* socket is open; otherwise it returns false and transmits nothing; in both
\* cases it changes no other state, and nothing is queued: no step other than
\* a sendMessage call (an open event in particular) puts anything on the wire.
C11_SendOnlyWhenOpen ==
  [][/\ (CallSendMessage(M_ping) /\ HeldOpen)
          => sent' = Append(sent, "{\"type\":\"ping\"}") /\ sendResult' = "true"
     /\ (CallSendMessage(M_text) /\ HeldOpen)
          => sent' = Append(sent, "\"hello\"") /\ sendResult' = "true"
     /\ (SendStep /\ ~HeldOpen) => sent' = sent /\ sendResult' = "false"
     /\ SendStep => UNCHANGED stateButSend
     /\ ~SendStep => sent' = sent]_vars

\* a send failed while no socket was open, and the socket opened afterwards
C11_Witness ==
  /\ sendResult = "false"
  /\ sent = <<>>
  /\ HeldOpen
  /\ connectionStatus = "connected"

\* sockets whose events are still due
Alive == {i \in SocketIds : sockets[i].readyState \in {"CONNECTING", "OPEN", "CLOSING"}}
\* the step is the open event of a socket
OpenStep == \E id \in SocketIds : SocketOpen(id)
\* the step is the close event of socket i
CloseStepOf(i) == SocketClose(i, TRUE) \/ SocketClose(i, FALSE)
\* the step schedules a reconnect timer
TimerScheduled == \E t \in TimerIds : timers'[t].pending /\ ~timers[t].pending
\* the step is a click that enables / that disables
EnableStep == toggleRealTime /\ ~isRealTimeEnabled
DisableStep == toggleRealTime /\ isRealTimeEnabled

\* C12: Error is never a resting state: while connectionStatus is "error" a
\* reconnect evaluation is under way, i.e. a socket event or a reconnect
\* timer is still due, so the state leaves Error with no external event.
C12_ErrorIsTransient ==
  connectionStatus = "error" => (Alive # {} \/ PendingTimers # {})

\* C13: attemptsUsed is 0 right after every open event, and it lies in
\* 0..maxAttempts in every reachable state.
C13_AttemptsInRange ==
  [][/\ OpenStep => reconnectAttempts' = 0
     /\ reconnectAttempts' \in 0..maxReconnectAttempts]_vars

\* C14: the connect() call of an enabling click resets attemptsUsed to 0,
\* before any socket opens.
C14_EnableResetsAttempts ==
  [][EnableStep => reconnectAttempts' = 0]_vars

\* C15: after disconnect() the timer it held is cancelled and the held socket
\* is no longer open or opening, and the close event of a socket closed by
\* disconnect() schedules no reconnect timer.
C15_DisconnectIsFinal ==
  [][/\ CallDisconnect
          => /\ reconnectTimeoutRef # NoTimer => ~timers'[reconnectTimeoutRef].pending
             /\ ws # NoSocket => sockets'[ws].readyState \notin {"CONNECTING", "OPEN"}
     /\ \A i \in SocketIds :
          (sockets[i].readyState = "CLOSING" /\ CloseStepOf(i)) => ~TimerScheduled]_vars

C17_EmptyUrlDoesNotConnect ==
  [][/\ (DisableStep \/ (CallConnect /\ ~isRealTimeEnabled))
          => /\ \A i \in SocketIds : sockets'[i].readyState = "CONNECTING"
                                      => sockets[i].readyState = "CONNECTING"
             /\ ~TimerScheduled
             /\ connectionStatus' = "disconnected"
             /\ isConnected' = FALSE
     /\ toggles' = 0
          => /\ \A i \in SocketIds : sockets'[i].readyState = "FREE"
             /\ PendingTimers' = {}
             /\ connectionStatus' = "disconnected"]_vars

\* connect() was called directly while the url was empty
C17_Witness ==
  /\ toggles = 0
  /\ connectCalls = 1
  /\ connectionStatus = "disconnected"
  /\ ~isConnected
  /\ ws = NoSocket

\* C18 (as stated): the control operation is idempotent: applied again after
\* a first application it changes neither enabled nor any socket.
C18_ControlIsIdempotent ==
  [][(toggleRealTime /\ toggles >= 1) => UNCHANGED <<isRealTimeEnabled, sockets, ws>>]_vars

\* C18 (amended): the only control operation, toggleRealTime, negates enabled
\* on every call; a call when enabled disables and leaves the state
\* Disconnected with the held socket neither open nor opening, and a call
\* when disabled enables and opens exactly one socket (none when the url is
\* rejected); so two calls in a row restore enabled.
C18_ToggleNegates ==
  [][toggleRealTime
       => /\ isRealTimeEnabled' = ~isRealTimeEnabled
          /\ isRealTimeEnabled
               => /\ connectionStatus' = "disconnected"
                  /\ ws # NoSocket => sockets'[ws].readyState \notin {"CONNECTING", "OPEN"}
                  /\ \A i \in SocketIds : sockets'[i].readyState = "CONNECTING"
                                           => sockets[i].readyState = "CONNECTING"
          /\ (~isRealTimeEnabled /\ wsUrl = DefaultWsUrl)
               => /\ ws' # NoSocket
                  /\ {i \in SocketIds : sockets'[i].readyState = "CONNECTING"
                                         /\ sockets[i].readyState # "CONNECTING"} = {ws'}]_vars

\* enabled, disabled and enabled again, the third socket opening
C18_Witness ==
  /\ toggles = 3
  /\ isRealTimeEnabled
  /\ ws # NoSocket
  /\ sockets[ws].readyState = "CONNECTING"

\* C19: while enabled and attemptsUsed < maxAttempts, the close event of the
\* held socket schedules the reconnect timer whose firing makes the next
\* connect attempt.
C19_CloseSchedulesRetry ==
  [][\A i \in SocketIds :
       (ws = i /\ CloseStepOf(i) /\ isRealTimeEnabled
          /\ reconnectAttempts < maxReconnectAttempts) => TimerScheduled]_vars

\* C20: a reconnect attempt adds exactly one to attemptsUsed, and the budget
\* test of a close event reads the current attemptsUsed: the close schedules
\* a timer exactly when attemptsUsed < maxAttempts.
C20_BudgetReadsCurrentCount ==
  [][/\ TimerStep => reconnectAttempts' = reconnectAttempts + 1
     /\ \A i \in SocketIds :
          CloseStepOf(i) => (TimerScheduled <=> reconnectAttempts < maxReconnectAttempts)]_vars

\* the values of connectionStatus (api.ts:172)
Statuses == {"connecting", "connected", "disconnected", "error"}

\* C21: the status text is a total function of (enabled, connectionState):
\* Paused whenever disabled; otherwise Live, Connecting, Error, Disconnected
\* for connected, connecting, error, disconnected; so Live is shown only
\* when enabled and connected. Stated for every input and for the badge of
\* the current state.
C21_StatusText ==
  /\ \A s \in Statuses :
       /\ getStatusText(FALSE, s) = "Paused"
       /\ getStatusText(TRUE, s) \in {"Live", "Connecting", "Error", "Disconnected"}
  /\ getStatusText(TRUE, "connected") = "Live"
  /\ getStatusText(TRUE, "connecting") = "Connecting"
  /\ getStatusText(TRUE, "error") = "Error"
  /\ getStatusText(TRUE, "disconnected") = "Disconnected"
  /\ ~isRealTimeEnabled => getStatusText(isRealTimeEnabled, connectionStatus) = "Paused"
  /\ getStatusText(isRealTimeEnabled, connectionStatus) = "Live"
       <=> (isRealTimeEnabled /\ connectionStatus = "connected")

\* paused while a socket made by a late reconnect timer is connected
C21_Witness ==
  /\ ~isRealTimeEnabled
  /\ connectionStatus = "connected"
  /\ getStatusText(isRealTimeEnabled, connectionStatus) = "Paused"

\* frames that parse as an object with type and data
ValidFrames == {F_dm, F_fa, F_sa, F_ub, F_other}
\* the routing table of the specification: key groups per event type, in order
RoutingGroups(f) ==
  CASE f = F_dm -> <<"dashboard-metrics">>
    [] f = F_fa -> <<"funnel-analysis", "dropoff-analysis">>
    [] f = F_sa -> <<"sentiment-analysis">>
    [] f = F_ub -> <<"user-behavior", "user-journey-patterns", "similar-users">>
    [] OTHER    -> <<>>

\* C22: frames are handled one at a time in arrival order, so the sequence of
\* invalidation calls is the concatenation over the frames of the calls made
\* for each; the calls made for a frame are the routing-table groups of the
\* frame when it is valid and received while enabled, and none otherwise.
C22_CallsFollowValidFrames ==
  [][FrameStep
       => invalidated' = IF isRealTimeEnabled /\ lastFrame' \in ValidFrames
                         THEN RoutingGroups(lastFrame')
                         ELSE <<>>]_vars

connectionVars ==
  <<sockets, ws, connectionStatus, isConnected, reconnectAttempts, timers,
    reconnectTimeoutRef>>

\* C23: an exception raised by the consumer callback while it handles a
\* parsed frame does not leave the frame handler, closes no socket, changes
\* no connection state, and the frame after it is handled as usual.
C23_CallbackFailureContained ==
  [][FrameStep
       => /\ uncaught' = FALSE
          /\ UNCHANGED connectionVars
          /\ (lastFrame = F_null /\ lastFrame' # F_bad)
               => lastMessage' = JSONparse(lastFrame')]_vars

\* the callback has just failed on a frame that parsed to null
C23_Witness ==
  /\ lastFrame = F_null
  /\ lastMessage = JSNull
  /\ updateCount = 1
  /\ ~uncaught
  /\ HeldOpen
  /\ connectionStatus = "connected"

\* C24: while the feature is disabled no frame has an effect on the control
\* surface: updateCount and lastUpdate do not change and no invalidation call
\* is made.
C24_DisabledIsInert ==
  [][(~isRealTimeEnabled /\ ~isRealTimeEnabled')
       => /\ UNCHANGED <<updateCount, lastUpdate>>
          /\ FrameStep => invalidated' = <<>>]_vars

\* C25: isConnected is true exactly when connectionStatus is "connected".
C25_FlagsAgree == isConnected <=> connectionStatus = "connected"

\* C26: connectionStatus is "connected" exactly when the held socket is open,
\* and an open or close/error event of a socket that is not the held one
\* changes neither connectionStatus nor isConnected nor attemptsUsed.
C26_StatusFollowsHeldSocket ==
  [][/\ connectionStatus' = "connected" <=> HeldOpen'
     /\ \A i \in SocketIds :
          (i # ws /\ (SocketOpen(i) \/ CloseStepOf(i)))
            => UNCHANGED <<connectionStatus, isConnected, reconnectAttempts>>]_vars

\* C27: updateCount never decreases, and every step that is not the
\* handling of a frame (a toggle, a socket open/close/error event, a timer
\* firing) leaves updateCount and lastUpdate unchanged.
C27_CountNeverReset ==
  [][/\ updateCount' >= updateCount
     /\ ~FrameStep => UNCHANGED <<updateCount, lastUpdate>>]_vars

\* an update was counted, then the feature was disabled and enabled again
C27_Witness ==
  /\ updateCount = 1
  /\ lastUpdate = 1
  /\ toggles = 3
  /\ isRealTimeEnabled

\* C28: lastUpdate is null exactly when updateCount is 0, and every step that
\* increments updateCount sets lastUpdate to the time of that step.
C28_UpdateAndCountTogether ==
  [][/\ lastUpdate' = 0 <=> updateCount' = 0
     /\ updateCount' # updateCount => lastUpdate' = now' /\ lastUpdate' # 0]_vars

\* two updates counted, the second at clock value 2
C28_Witness ==
  /\ updateCount = 2
  /\ lastUpdate = 2
  /\ now = 2

C30_AlertListBounded ==
  [][/\ Len(alerts') <= 10
     /\ (\E m \in AlertMessages : AddAlert(m))
          => /\ Len(alerts') = (IF Len(alerts) < 9 THEN Len(alerts) ELSE 9) + 1
             /\ alerts'[1].id = alertClock' /\ ~alerts'[1].dismissed
             /\ \A i \in 2..Len(alerts') : alerts'[i] = alerts[i - 1]
     /\ \A alertId \in 0..MaxAlertClock :
          DismissAlert(alertId)
            => /\ Len(alerts') = Len(alerts)
               /\ \A i \in DOMAIN alerts :
                    /\ [alerts'[i] EXCEPT !.dismissed = FALSE] = [alerts[i] EXCEPT !.dismissed = FALSE]
                    /\ alerts'[i].dismissed = (alerts[i].dismissed \/ alerts[i].id = alertId)
     /\ ClearAllAlerts => alerts' = <<>>
     /\ \A i \in DOMAIN activeAlerts(alerts') : ~activeAlerts(alerts')[i].dismissed
     /\ Len(activeAlerts(alerts')) = Cardinality({i \in DOMAIN alerts' : ~alerts'[i].dismissed})]_vars

\* a full list whose oldest alert was dismissed before newer ones, two of
\* them made in the same millisecond, were added
C30_Witness ==
  /\ Len(alerts) = 10
  /\ alerts[10].dismissed
  /\ alerts[10].id = 0
  /\ alerts[1].id = 2
  /\ alerts[2].id = 2
  /\ ~alerts[1].dismissed
  /\ Len(activeAlerts(alerts)) < 10

====
